---- MODULE Spec2Model ----
(***************************************************************************)
(* Model of ONSApiClient (src/api/ons-client.ts): a typed client of the    *)
(* ONS REST API.  Every operation issues HTTP requests through one axios   *)
(* instance whose response interceptor rewrites each failure into a fresh  *)
(* Error("ONS API: <kind text> - <message>").                              *)
(*                                                                         *)
(* Strings.  Message texts and URLs are sequences of text fragments; the   *)
(* concatenation of a template string is \o and String.includes is the     *)
(* search for a contiguous run of fragments.  No fragment used here        *)
(* contains "500" or "Server error" inside a longer fragment, so the       *)
(* fragment-level search agrees with the character-level one.  Dataset     *)
(* titles, descriptions, ids and search queries are sequences of single    *)
(* characters, because searchDatasets lower-cases and searches them.       *)
(*                                                                         *)
(* Optional values (an omitted argument, an absent JSON field) are <<>>    *)
(* when absent and <<v>> when present.                                     *)
(***************************************************************************)
EXTENDS Integers, Sequences, FiniteSets, TLC

VARIABLES client, pc, call, attempts, caught, result

vars == <<client, pc, call, attempts, caught, result>>

-----------------------------------------------------------------------------
(* Optional values and strings *)

None == <<>>

Some(v) == <<v>>

\* A parameter default (edition = 'time-series', version = 'latest', ...).
Default(arg, d) == IF arg = None THEN d ELSE arg[1]

\* String.prototype.includes on fragment (or character) sequences.
Includes(s, sub) ==
    \E i \in 0..(Len(s) - Len(sub)) : SubSeq(s, i + 1, i + Len(sub)) = sub

RECURSIVE Join(_, _)
\* Array.prototype.join: the parts separated by sep.
Join(parts, sep) ==
    IF parts = <<>> THEN <<>>
    ELSE IF Len(parts) = 1 THEN parts[1]
    ELSE parts[1] \o <<sep>> \o Join(Tail(parts), sep)

-----------------------------------------------------------------------------
(* The calls that can be in progress on the one client *)

Calls == {"c1"}

-----------------------------------------------------------------------------
(* Arguments the callers pass *)

DatasetIds == {"cpih01", "trade"}

\* edition: omitted (defaults to 'time-series') or given.
EditionArgs == {None, Some("2021")}

\* version: omitted (defaults to 'latest'), the alias, the fallback version
\* itself, or another concrete version.
VersionArgs == {None, Some("latest"), Some("6"), Some("5")}

\* dimensions: Record<string, string> in insertion order, as <<key, value>> pairs.
DimensionArgs ==
    { <<>>,
      << <<"geography", "K02000001">> >>,
      << <<"time", "Aug-23">>, <<"aggregate", "cpih1dim1A0">> >> }

DimensionIds == {"geography"}

-----------------------------------------------------------------------------
(* What the transport can answer *)

\* HTTP statuses axios rejects with a response attached.
ErrorStatuses == {400, 404, 429, 500, 503}

\* error.response.data?.message: absent, the empty string, or a text.
ServerMessages ==
    { None,
      Some(<<>>),
      Some(<<"internal error">>),
      Some(<<"upstream returned ", "500">>),
      Some(<<"Server error", " ", "500">>) }

\* error.message of a rejection that carries no response.
TransportMessages == { <<"Network Error">>, <<"timeout of 10000ms exceeded">> }

StatusText(status) ==
    CASE status = 400 -> "400"
      [] status = 404 -> "404"
      [] status = 429 -> "429"
      [] status = 500 -> "500"
      [] status = 503 -> "503"

\* error.message axios gives a rejection for a status outside 2xx.
AxiosMessage(status) == <<"Request failed with status code ", StatusText(status)>>

HttpError(status, msg) ==
    [type |-> "error",
     response |-> Some([status |-> status, data |-> [message |-> msg]]),
     message |-> AxiosMessage(status)]

NoResponseError(text) ==
    [type |-> "error", response |-> None, message |-> text]

Success(body) == [type |-> "response", status |-> 200, data |-> body]

Failures ==
    { HttpError(s, m) : s \in ErrorStatuses, m \in ServerMessages }
      \cup { NoResponseError(t) : t \in TransportMessages }

-----------------------------------------------------------------------------
(* Response bodies (the interfaces of lines 3-58) *)

cpih01 == <<"c", "p", "i", "h", "0", "1">>

trade == <<"t", "r", "a", "d", "e">>

gdp == <<"g", "d", "p">>

\* "CPI Index"
CpiIndex == <<"C", "P", "I", " ", "I", "n", "d", "e", "x">>

\* "Trade Balance"
TradeBalance == <<"T", "r", "a", "d", "e", " ", "B", "a", "l", "a", "n", "c", "e">>

\* "GDP"
Gdp == <<"G", "D", "P">>

\* "Prices"
Prices == <<"P", "r", "i", "c", "e", "s">>

\* "UK goods"
UkGoods == <<"U", "K", " ", "g", "o", "o", "d", "s">>

\* "Output and TRADE"
OutputAndTrade ==
    <<"O", "u", "t", "p", "u", "t", " ", "a", "n", "d", " ", "T", "R", "A", "D", "E">>

Geography == [id |-> "geography", name |-> "geography", label |-> "Geography"]

\* ONSDataset: id, title, description and the optional dimensions list.
Dataset(id, title, description, dimensions) ==
    [id |-> id, title |-> title, description |-> description,
     dimensions |-> dimensions]

DsCpih == Dataset(cpih01, CpiIndex, Prices, Some(<<Geography>>))

DsTrade == Dataset(trade, TradeBalance, UkGoods, None)

DsGdp == Dataset(gdp, Gdp, OutputAndTrade, Some(<<>>))

Datasets == {DsCpih, DsTrade, DsGdp}

\* ONSDatasetList as the server fills it in.
DatasetList(items, total) ==
    [count |-> Len(items), items |-> items, limit |-> 100, offset |-> 0,
     total_count |-> total]

DatasetLists ==
    { DatasetList(<<>>, 0),
      DatasetList(<<DsCpih, DsTrade>>, 2),
      DatasetList(<<DsTrade, DsCpih, DsGdp, DsTrade>>, 337) }

\* A version document: only downloads.csv.href is read by the client.
Version(number, downloads) == [version |-> number, downloads |-> downloads]

Versions ==
    { Version("63", None),
      Version("63", Some([csv |-> None])),
      Version("6", Some([csv |-> Some([href |-> None])])),
      Version("6", Some([csv |-> Some([href |-> Some("")])])),
      Version("6", Some([csv |-> Some([href |-> Some("https://download.ons.gov.uk/cpih01.csv")])])) }

\* ONSObservationResponse.
ObservationResponses ==
    { [observations |-> <<>>, total_observations |-> 0],
      [observations |-> <<[observation |-> "103.6"]>>, total_observations |-> 1] }

DimensionOptions == { [items |-> <<>>], [items |-> <<"K02000001">>] }

-----------------------------------------------------------------------------
(* The axios instance and its response interceptor *)

\* A fresh Error(message): it has a message and no response attribute.
NewError(message) == [type |-> "error", response |-> None, message |-> message]

\* The rejection handler with the 429 case lost: 429 falls to the default.
InterceptorWithout429(error) ==
    IF error.response # None
    THEN LET status == error.response[1].status
             served == error.response[1].data.message
             message == IF served = None \/ served[1] = <<>>
                        THEN error.message ELSE served[1]
         IN  CASE status = 404 -> NewError(<<"ONS API: ", "Resource not found", " - ">> \o message)
               [] status = 400 -> NewError(<<"ONS API: ", "Bad request", " - ">> \o message)
               [] status = 500 -> NewError(<<"ONS API: ", "Server error", " - ">> \o message)
               [] OTHER -> NewError(<<"ONS API: ", "HTTP ", StatusText(status), " - ">> \o message)
    ELSE NewError(<<"ONS API: ", "Network error", " - ">> \o error.message)

\* The rejection handler passing on, as it came, a rejection that carries
\* no response.
InterceptorRethrowsNetwork(error) ==
    IF error.response # None
    THEN LET status == error.response[1].status
             served == error.response[1].data.message
             message == IF served = None \/ served[1] = <<>>
                        THEN error.message ELSE served[1]
         IN  CASE status = 404 -> NewError(<<"ONS API: ", "Resource not found", " - ">> \o message)
               [] status = 400 -> NewError(<<"ONS API: ", "Bad request", " - ">> \o message)
               [] status = 429 -> NewError(<<"ONS API: ", "Rate limit exceeded", " - ">> \o message)
               [] status = 500 -> NewError(<<"ONS API: ", "Server error", " - ">> \o message)
               [] OTHER -> NewError(<<"ONS API: ", "HTTP ", StatusText(status), " - ">> \o message)
    ELSE error

\* The rejection handler copying the response onto the Error it throws.
InterceptorKeepingResponse(error) ==
    IF error.response # None
    THEN LET status == error.response[1].status
             served == error.response[1].data.message
             message == IF served = None \/ served[1] = <<>>
                        THEN error.message ELSE served[1]
             text == CASE status = 404 -> <<"ONS API: ", "Resource not found", " - ">>
                       [] status = 400 -> <<"ONS API: ", "Bad request", " - ">>
                       [] status = 429 -> <<"ONS API: ", "Rate limit exceeded", " - ">>
                       [] status = 500 -> <<"ONS API: ", "Server error", " - ">>
                       [] OTHER -> <<"ONS API: ", "HTTP ", StatusText(status), " - ">>
         IN  [type |-> "error", response |-> error.response,
              message |-> text \o message]
    ELSE NewError(<<"ONS API: ", "Network error", " - ">> \o error.message)

\* The rejection handler of the response interceptor.
Interceptor(error) ==
    IF error.response # None
    THEN LET status == error.response[1].status
             served == error.response[1].data.message
             message == IF served = None \/ served[1] = <<>>
                        THEN error.message ELSE served[1]
         IN  CASE status = 404 -> NewError(<<"ONS API: ", "Resource not found", " - ">> \o message)
               [] status = 400 -> NewError(<<"ONS API: ", "Bad request", " - ">> \o message)
               [] status = 429 -> NewError(<<"ONS API: ", "Rate limit exceeded", " - ">> \o message)
               [] status = 500 -> NewError(<<"ONS API: ", "Server error", " - ">> \o message)
               [] OTHER -> NewError(<<"ONS API: ", "HTTP ", StatusText(status), " - ">> \o message)
    ELSE NewError(<<"ONS API: ", "Network error", " - ">> \o error.message)

\* The instance without the interceptor registered on it.
NewClientWithoutInterceptor ==
    [baseURL |-> "https://api.beta.ons.gov.uk/v1",
     timeout |-> 10000,
     headers |-> [Accept |-> "application/json",
                  UserAgent |-> "uk_ons_mcp_server/1.0.0"],
     interceptors |-> <<>>]

\* The instance the constructor builds: axios.create(...) plus the one
\* response interceptor registered on it.
NewClient ==
    [baseURL |-> "https://api.beta.ons.gov.uk/v1",
     timeout |-> 10000,
     headers |-> [Accept |-> "application/json",
                  UserAgent |-> "uk_ons_mcp_server/1.0.0"],
     interceptors |-> <<"errorNormalizer">>]

RECURSIVE RunInterceptors(_, _)
\* axios hands the outcome of the request to each registered response
\* interceptor in turn: a response to the fulfilment handler (the identity),
\* a rejection to the rejection handler, whose throw rejects again.
RunInterceptors(chain, outcome) ==
    IF chain = <<>> THEN outcome
    ELSE RunInterceptors(Tail(chain),
                         IF outcome.type = "response" THEN outcome
                         ELSE Interceptor(outcome))

\* How many times the rejection handler runs on an outcome.
Normalizations(chain, outcome) ==
    IF outcome.type = "response" THEN 0 ELSE Len(chain)

-----------------------------------------------------------------------------
(* Requests *)

Request(url, params) == [method |-> "GET", url |-> url, params |-> params]

\* `/datasets/${datasetId}/editions/${edition}/versions/${version}`
VersionUrl(datasetId, edition, version) ==
    <<"/datasets/", datasetId, "/editions/", edition, "/versions/", version>>

\* Object.entries(dimensions).map(([key, value]) => `${key}=${value}`).join('&')
DimensionParams(dimensions) ==
    Join([i \in 1..Len(dimensions) |->
             <<dimensions[i][1], "=", dimensions[i][2]>>], "&")

\* `/datasets/${datasetId}/editions/${edition}/versions/${version}/observations?${dimensionParams}`
ObservationsUrl(datasetId, edition, version, dimensionParams) ==
    VersionUrl(datasetId, edition, version) \o <<"/observations?">>
        \o dimensionParams

\* The version the fallback request names.
FallbackVersion == "6"

Pending == [type |-> "pending"]

\* One request attempt of a call: the request, how far it has got, what the
\* transport answered, what the interceptor chain made of it, and how many
\* times the rejection handler ran on it.
Attempt(request) ==
    [request |-> request, stage |-> "sent", raw |-> Pending,
     settled |-> Pending, normalized |-> 0]

-----------------------------------------------------------------------------
(* searchDatasets' client-side filter *)

LowerChar(ch) ==
    CASE ch = "A" -> "a" [] ch = "B" -> "b" [] ch = "C" -> "c" [] ch = "D" -> "d"
      [] ch = "E" -> "e" [] ch = "F" -> "f" [] ch = "G" -> "g" [] ch = "H" -> "h"
      [] ch = "I" -> "i" [] ch = "J" -> "j" [] ch = "K" -> "k" [] ch = "L" -> "l"
      [] ch = "M" -> "m" [] ch = "N" -> "n" [] ch = "O" -> "o" [] ch = "P" -> "p"
      [] ch = "Q" -> "q" [] ch = "R" -> "r" [] ch = "S" -> "s" [] ch = "T" -> "t"
      [] ch = "U" -> "u" [] ch = "V" -> "v" [] ch = "W" -> "w" [] ch = "X" -> "x"
      [] ch = "Y" -> "y" [] ch = "Z" -> "z" [] OTHER -> ch

\* String.prototype.toLowerCase.
ToLowerCase(s) == [i \in 1..Len(s) |-> LowerChar(s[i])]

\* The slice left out: every element is kept.
SliceAll(s, end) == s

\* Array.prototype.slice(0, end): a negative end counts from the back.
Slice0(s, end) ==
    LET stop == IF end < 0
                THEN (IF Len(s) + end < 0 THEN 0 ELSE Len(s) + end)
                ELSE (IF end > Len(s) THEN Len(s) ELSE end)
    IN  SubSeq(s, 1, stop)

\* The filter looking at the title and the id only.
MatchesSearchWithoutDescription(dataset, searchTerm) ==
    \/ Includes(ToLowerCase(dataset.title), searchTerm)
    \/ Includes(ToLowerCase(dataset.id), searchTerm)

\* The predicate of the filter: title, description or id contains searchTerm.
MatchesSearch(dataset, searchTerm) ==
    \/ Includes(ToLowerCase(dataset.title), searchTerm)
    \/ Includes(ToLowerCase(dataset.description), searchTerm)
    \/ Includes(ToLowerCase(dataset.id), searchTerm)

\* What searchDatasets returns for the fetched page.
SearchResult(allDatasets, query, limit) ==
    LET searchTerm == ToLowerCase(query)
        Keep(dataset) == MatchesSearch(dataset, searchTerm)
        filteredItems == Slice0(SelectSeq(allDatasets.items, Keep), limit)
    IN  [count |-> Len(filteredItems), items |-> filteredItems,
         limit |-> limit, offset |-> 0, total_count |-> Len(filteredItems)]

\* "trade", "TRADE", "cpi", "zz" and the empty query.
Queries ==
    { <<"t", "r", "a", "d", "e">>, <<"T", "R", "A", "D", "E">>,
      <<"c", "p", "i">>, <<"z", "z">>, <<>> }

\* limit of searchDatasets: omitted (defaults to 10) or given.
SearchLimitArgs == {None, Some(0), Some(1), Some(2), Some(-1)}

\* limit and offset of listDatasets: omitted (20 and 0) or given.
ListLimitArgs == {None, Some(1)}

ListOffsetArgs == {None, Some(20)}

-----------------------------------------------------------------------------
(* State *)

NoCall == [op |-> "none"]

NoResult == [type |-> "none"]

NoError == [type |-> "none"]

Return(value) == [type |-> "return", value |-> value]

Throw(error) == [type |-> "throw", error |-> error]

\* The attempt a call is waiting on: the last one it issued.
Current(c) == attempts[c][Len(attempts[c])]

Init ==
    /\ client = NewClient
    /\ pc = [c \in Calls |-> "idle"]
    /\ call = [c \in Calls |-> NoCall]
    /\ attempts = [c \in Calls |-> <<>>]
    /\ caught = [c \in Calls |-> NoError]
    /\ result = [c \in Calls |-> NoResult]

\* this.client.get(url, {params}) as the first request of call c.
Issue(c, invocation, request) ==
    /\ pc[c] = "idle"
    /\ pc' = [pc EXCEPT ![c] = "primary"]
    /\ call' = [call EXCEPT ![c] = invocation]
    /\ attempts' = [attempts EXCEPT ![c] = <<Attempt(request)>>]
    /\ UNCHANGED <<client, caught, result>>

\* The fallback request issued after ejecting the interceptor from the
\* shared instance.
IssueFallbackEjectingInterceptor(c, error, request) ==
    /\ pc' = [pc EXCEPT ![c] = "fallback"]
    /\ caught' = [caught EXCEPT ![c] = error]
    /\ attempts' = [attempts EXCEPT
                      ![c] = [Append(@, Attempt(request)) EXCEPT
                                ![Len(attempts[c])].stage = "consumed"]]
    /\ client' = [client EXCEPT !.interceptors = <<>>]
    /\ UNCHANGED <<call, result>>

\* this.client.get(url) as the fallback request of call c, issued from the
\* catch block that holds `error`.
IssueFallback(c, error, request) ==
    /\ pc' = [pc EXCEPT ![c] = "fallback"]
    /\ caught' = [caught EXCEPT ![c] = error]
    /\ attempts' = [attempts EXCEPT
                      ![c] = [Append(@, Attempt(request)) EXCEPT
                                ![Len(attempts[c])].stage = "consumed"]]
    /\ UNCHANGED <<client, call, result>>

\* The call settles: its promise resolves with a value or rejects.
Finish(c, outcome) ==
    /\ pc' = [pc EXCEPT ![c] = "done"]
    /\ result' = [result EXCEPT ![c] = outcome]
    /\ attempts' = [attempts EXCEPT ![c] = [@ EXCEPT ![Len(@)].stage = "consumed"]]
    /\ UNCHANGED <<client, call, caught>>

\* The awaited request of call c has settled and the code after the await runs.
Resumes(c, ops) ==
    /\ pc[c] \in {"primary", "fallback"}
    /\ call[c].op \in ops
    /\ Current(c).stage = "settled"

-----------------------------------------------------------------------------
(* The transport *)

\* The bodies a 2xx answer to a request of the operation can carry.
Bodies(op) ==
    CASE op \in {"listDatasets", "searchDatasets", "healthCheck"} -> DatasetLists
      [] op \in {"getDataset", "getDatasetDimensions"} -> Datasets
      [] op \in {"getLatestVersion", "getDownloadUrl"} -> Versions
      [] op = "getObservations" -> ObservationResponses
      [] op = "getDimensionOptions" -> DimensionOptions
      [] OTHER -> {}

Outcomes(op) == Failures \cup { Success(body) : body \in Bodies(op) }

\* The server answers, or the transport gives up on, the request in flight.
Respond(c, outcome) ==
    /\ pc[c] \in {"primary", "fallback"}
    /\ Current(c).stage = "sent"
    /\ attempts' = [attempts EXCEPT
                      ![c] = [@ EXCEPT ![Len(@)].stage = "responded",
                                       ![Len(@)].raw = outcome]]
    /\ UNCHANGED <<client, pc, call, caught, result>>

\* axios runs the instance's response interceptors on the outcome and settles
\* the promise client.get returned.
Intercept(c) ==
    /\ pc[c] \in {"primary", "fallback"}
    /\ Current(c).stage = "responded"
    /\ attempts' = [attempts EXCEPT
          ![c] = [@ EXCEPT
             ![Len(@)].stage = "settled",
             ![Len(@)].settled = RunInterceptors(client.interceptors, Current(c).raw),
             ![Len(@)].normalized = Normalizations(client.interceptors, Current(c).raw)]]
    /\ UNCHANGED <<client, pc, call, caught, result>>

-----------------------------------------------------------------------------
(* Operations without a catch block *)

listDatasets(c, limit, offset) ==
    LET params == [limit |-> Default(limit, 20), offset |-> Default(offset, 0)]
    IN  Issue(c, [op |-> "listDatasets", limit |-> params.limit,
                  offset |-> params.offset],
              Request(<<"/datasets">>, Some(params)))

listDatasetsAwait(c) ==
    /\ Resumes(c, {"listDatasets"})
    /\ LET response == Current(c).settled
       IN  Finish(c, IF response.type = "response"
                     THEN Return(response.data) ELSE Throw(response))

getDataset(c, datasetId) ==
    Issue(c, [op |-> "getDataset", datasetId |-> datasetId],
          Request(<<"/datasets/", datasetId>>, None))

getDatasetAwait(c) ==
    /\ Resumes(c, {"getDataset"})
    /\ LET response == Current(c).settled
       IN  Finish(c, IF response.type = "response"
                     THEN Return(response.data) ELSE Throw(response))

\* The projection without its default: an absent link comes out as undefined.
DownloadHrefWithoutDefault(latestVersion) ==
    IF latestVersion.downloads = None THEN "undefined"
    ELSE IF latestVersion.downloads[1].csv = None THEN "undefined"
    ELSE IF latestVersion.downloads[1].csv[1].href = None THEN "undefined"
    ELSE latestVersion.downloads[1].csv[1].href[1]

\* latestVersion.downloads?.csv?.href || ''
DownloadHref(latestVersion) ==
    IF latestVersion.downloads = None THEN ""
    ELSE IF latestVersion.downloads[1].csv = None THEN ""
    ELSE IF latestVersion.downloads[1].csv[1].href = None THEN ""
    ELSE latestVersion.downloads[1].csv[1].href[1]

\* searchDatasets awaits this.listDatasets(100, 0).
searchDatasets(c, query, limit) ==
    Issue(c, [op |-> "searchDatasets", query |-> query,
              limit |-> Default(limit, 10)],
          Request(<<"/datasets">>, Some([limit |-> 100, offset |-> 0])))

searchDatasetsAwait(c) ==
    /\ Resumes(c, {"searchDatasets"})
    /\ LET allDatasets == Current(c).settled
       IN  Finish(c, IF allDatasets.type = "response"
                     THEN Return(SearchResult(allDatasets.data, call[c].query,
                                              call[c].limit))
                     ELSE Throw(allDatasets))

PopularDatasets ==
    <<"cpih01", "regional-gdp-by-year", "wellbeing-local-authority",
      "uk-spending-on-cards", "weekly-deaths-region", "trade",
      "ageing-population-estimates", "wellbeing-quarterly",
      "traffic-camera-activity", "tax-benefits-statistics">>

\* Synchronous: no request, the list is returned at once.
getPopularDatasets(c) ==
    /\ pc[c] = "idle"
    /\ pc' = [pc EXCEPT ![c] = "done"]
    /\ call' = [call EXCEPT ![c] = [op |-> "getPopularDatasets"]]
    /\ result' = [result EXCEPT ![c] = Return(PopularDatasets)]
    /\ UNCHANGED <<client, attempts, caught>>

\* The projection without its default: an absent list comes out as undefined.
DimensionsOfWithoutDefault(dataset) ==
    IF dataset.dimensions = None THEN <<"undefined">> ELSE dataset.dimensions[1]

\* dataset.dimensions || []
DimensionsOf(dataset) ==
    IF dataset.dimensions = None THEN <<>> ELSE dataset.dimensions[1]

\* getDatasetDimensions awaits this.getDataset(datasetId).
getDatasetDimensions(c, datasetId) ==
    Issue(c, [op |-> "getDatasetDimensions", datasetId |-> datasetId],
          Request(<<"/datasets/", datasetId>>, None))

getDatasetDimensionsAwait(c) ==
    /\ Resumes(c, {"getDatasetDimensions"})
    /\ LET dataset == Current(c).settled
       IN  Finish(c, IF dataset.type = "response"
                     THEN Return(DimensionsOf(dataset.data)) ELSE Throw(dataset))

getDimensionOptions(c, datasetId, dimensionId) ==
    Issue(c, [op |-> "getDimensionOptions", datasetId |-> datasetId,
              dimensionId |-> dimensionId],
          Request(<<"/datasets/", datasetId, "/dimensions/", dimensionId,
                    "/options">>, None))

getDimensionOptionsAwait(c) ==
    /\ Resumes(c, {"getDimensionOptions"})
    /\ LET response == Current(c).settled
       IN  Finish(c, IF response.type = "response"
                     THEN Return(response.data) ELSE Throw(response))

-----------------------------------------------------------------------------
(* healthCheck *)

healthCheck(c) ==
    Issue(c, [op |-> "healthCheck"], Request(<<"/datasets?limit=1">>, None))

\* healthCheck with the catch lost: the failure leaves the function.
healthCheckWithoutCatch(settled) ==
    IF settled.type = "response" THEN Return(TRUE) ELSE Throw(settled)

\* try { await ...; return true } catch { return false }
healthCheckOutcome(settled) ==
    IF settled.type = "response" THEN Return(TRUE) ELSE Return(FALSE)

healthCheckAwait(c) ==
    /\ Resumes(c, {"healthCheck"})
    /\ Finish(c, healthCheckOutcome(Current(c).settled))

-----------------------------------------------------------------------------
(* getLatestVersion and getDownloadUrl *)

\* error.response?.status === 500
HasStatus500(error) ==
    error.response # None /\ error.response[1].status = 500

\* getLatestVersion asking for version '6' after every failure, the
\* failure of the fallback request included.
getLatestVersionStepRetrying(phase, settled) ==
    IF settled.type = "response" THEN "return" ELSE "fallback"

\* What the code after an await of getLatestVersion does with the settled
\* request: the try returns the data; the catch of the primary request
\* falls back on a 500 and otherwise rethrows; the fallback request is
\* awaited inside the catch block, outside any try, so its rejection
\* leaves the function as it is.
getLatestVersionStep(phase, settled) ==
    IF settled.type = "response" THEN "return"
    ELSE IF phase = "primary" /\ HasStatus500(settled) THEN "fallback"
    ELSE "throw"

getLatestVersion(c, datasetId, edition) ==
    LET ed == Default(edition, "time-series")
    IN  Issue(c, [op |-> "getLatestVersion", datasetId |-> datasetId,
                  edition |-> ed],
              Request(VersionUrl(datasetId, ed, "latest"), None))

\* getDownloadUrl awaits this.getLatestVersion(datasetId, edition).
getDownloadUrl(c, datasetId, edition) ==
    LET ed == Default(edition, "time-series")
    IN  Issue(c, [op |-> "getDownloadUrl", datasetId |-> datasetId,
                  edition |-> ed],
              Request(VersionUrl(datasetId, ed, "latest"), None))

getLatestVersionAwait(c) ==
    /\ Resumes(c, {"getLatestVersion", "getDownloadUrl"})
    /\ LET settled == Current(c).settled
           step == getLatestVersionStep(pc[c], settled)
       IN  CASE step = "return" ->
                  Finish(c, Return(IF call[c].op = "getDownloadUrl"
                                   THEN DownloadHref(settled.data)
                                   ELSE settled.data))
             [] step = "fallback" ->
                  IssueFallback(c, settled,
                      Request(VersionUrl(call[c].datasetId, call[c].edition,
                                         FallbackVersion), None))
             [] step = "throw" -> Finish(c, Throw(settled))

-----------------------------------------------------------------------------
(* getObservations *)

\* error.response?.status === 500 ||
\*   (error.message && error.message.includes('Server error')
\*                  && error.message.includes('500'))
is500Error(error) ==
    \/ HasStatus500(error)
    \/ /\ error.message # <<>>
       /\ Includes(error.message, <<"Server error">>)
       /\ Includes(error.message, <<"500">>)

\* getObservations falling back again when the fallback request fails with
\* a 500 too.
getObservationsStepRetrying(phase, version, settled) ==
    IF settled.type = "response" THEN "return"
    ELSE IF version = "latest" /\ is500Error(settled) THEN "fallback"
    ELSE IF phase = "primary" THEN "throw"
    ELSE "rethrow"

\* What the code after an await of getObservations does with the settled
\* request.
getObservationsStep(phase, version, settled) ==
    IF settled.type = "response" THEN "return"
    ELSE IF phase = "primary"
         THEN (IF version = "latest" /\ is500Error(settled)
               THEN "fallback" ELSE "throw")
         ELSE "rethrow"

\* The inner catch throwing what it caught.
RethrowFallbackError(error, fallbackError) == fallbackError

\* catch (fallbackError) { throw error; }
getObservationsRethrow(error, fallbackError) == error

getObservations(c, datasetId, edition, version, dimensions) ==
    LET ed == Default(edition, "time-series")
        ver == Default(version, "latest")
        dimensionParams == DimensionParams(dimensions)
    IN  Issue(c, [op |-> "getObservations", datasetId |-> datasetId,
                  edition |-> ed, version |-> ver,
                  dimensionParams |-> dimensionParams],
              Request(ObservationsUrl(datasetId, ed, ver, dimensionParams), None))

getObservationsAwait(c) ==
    /\ Resumes(c, {"getObservations"})
    /\ LET settled == Current(c).settled
           step == getObservationsStep(pc[c], call[c].version, settled)
       IN  CASE step = "return" -> Finish(c, Return(settled.data))
             [] step = "fallback" ->
                  IssueFallback(c, settled,
                      Request(ObservationsUrl(call[c].datasetId, call[c].edition,
                                  FallbackVersion, call[c].dimensionParams), None))
             [] step = "rethrow" ->
                  Finish(c, Throw(getObservationsRethrow(caught[c], settled)))
             [] step = "throw" -> Finish(c, Throw(settled))

-----------------------------------------------------------------------------
(* The specification *)

Next ==
    \E c \in Calls :
        \/ \E limit \in ListLimitArgs, offset \in ListOffsetArgs :
               listDatasets(c, limit, offset)
        \/ listDatasetsAwait(c)
        \/ \E datasetId \in DatasetIds : getDataset(c, datasetId)
        \/ getDatasetAwait(c)
        \/ \E datasetId \in DatasetIds, edition \in EditionArgs :
               getLatestVersion(c, datasetId, edition)
        \/ \E datasetId \in DatasetIds, edition \in EditionArgs :
               getDownloadUrl(c, datasetId, edition)
        \/ getLatestVersionAwait(c)
        \/ \E datasetId \in DatasetIds, edition \in EditionArgs,
              version \in VersionArgs, dimensions \in DimensionArgs :
               getObservations(c, datasetId, edition, version, dimensions)
        \/ getObservationsAwait(c)
        \/ \E query \in Queries, limit \in SearchLimitArgs :
               searchDatasets(c, query, limit)
        \/ searchDatasetsAwait(c)
        \/ getPopularDatasets(c)
        \/ \E datasetId \in DatasetIds : getDatasetDimensions(c, datasetId)
        \/ getDatasetDimensionsAwait(c)
        \/ \E datasetId \in DatasetIds, dimensionId \in DimensionIds :
               getDimensionOptions(c, datasetId, dimensionId)
        \/ getDimensionOptionsAwait(c)
        \/ healthCheck(c)
        \/ healthCheckAwait(c)
        \/ \E outcome \in Outcomes(call[c].op) : Respond(c, outcome)
        \/ Intercept(c)

Spec == Init /\ [][Next]_vars

-----------------------------------------------------------------------------
(* Vocabulary of the properties *)

\* The kind of a failure, read off the fixed head of its message:
\* "ONS API: <kind text> - ...".  "Raw" is a failure that is no
\* NormalizedFailure.
KindOf(error) ==
    LET m == error.message
    IN  IF Len(m) < 3 \/ m[1] # "ONS API: " THEN "Raw"
        ELSE CASE m[2] = "Resource not found" /\ m[3] = " - " -> "NotFound"
               [] m[2] = "Bad request" /\ m[3] = " - " -> "BadRequest"
               [] m[2] = "Rate limit exceeded" /\ m[3] = " - " -> "RateLimited"
               [] m[2] = "Server error" /\ m[3] = " - " -> "ServerError"
               [] m[2] = "Network error" /\ m[3] = " - " -> "NetworkError"
               [] m[2] = "HTTP " /\ Len(m) >= 4 /\ m[4] = " - " -> "UnknownHttp"
               [] OTHER -> "Raw"

\* The kind the status table of the Error Normalizer assigns to what the
\* transport answered.
KindByStatus(raw) ==
    IF raw.response = None THEN "NetworkError"
    ELSE LET status == raw.response[1].status
         IN  CASE status = 404 -> "NotFound"
               [] status = 400 -> "BadRequest"
               [] status = 429 -> "RateLimited"
               [] status = 500 -> "ServerError"
               [] OTHER -> "UnknownHttp"

IsNormalizedFailure(error) ==
    error.type = "error" /\ error.response = None /\ KindOf(error) # "Raw"

\* The attempt has been through the interceptor chain.
Settled(attempt) == attempt.stage \in {"settled", "consumed"}

Failed(attempt) == Settled(attempt) /\ attempt.raw.type = "error"

Succeeded(attempt) == Settled(attempt) /\ attempt.raw.type = "response"

\* The transport answered the attempt with HTTP 500.
Got500(attempt) ==
    Failed(attempt) /\ KindByStatus(attempt.raw) = "ServerError"

Done(c, op) == pc[c] = "done" /\ call[c].op = op

-----------------------------------------------------------------------------
(* Properties *)

\* C1: every failed request attempt is settled with a failure whose kind is
\* the one the status table gives for the HTTP status (or for the absence of
\* a response), whatever message text the server or the transport supplied.
NormalizerKindByStatus ==
    \A c \in Calls : \A i \in 1..Len(attempts[c]) :
        Failed(attempts[c][i]) =>
            /\ attempts[c][i].settled.type = "error"
            /\ KindOf(attempts[c][i].settled) = KindByStatus(attempts[c][i].raw)

\* A 404 whose server message speaks of "Server error 500" is NotFound.
NormalizerKindByStatusWitness ==
    \E c \in Calls : \E i \in 1..Len(attempts[c]) :
        /\ Failed(attempts[c][i])
        /\ attempts[c][i].raw = HttpError(404, Some(<<"Server error", " ", "500">>))
        /\ KindOf(attempts[c][i].settled) = "NotFound"

\* C2: a getLatestVersion call whose 'latest' request failed with HTTP 500
\* has issued exactly one more request, to version '6' of the same dataset
\* and edition, and returns that response's data when it succeeds.
LatestVersionFallsBackOn500 ==
    \A c \in Calls :
        (Done(c, "getLatestVersion") /\ Got500(attempts[c][1])) =>
            /\ Len(attempts[c]) = 2
            /\ attempts[c][2].request =
                   Request(VersionUrl(call[c].datasetId, call[c].edition, "6"), None)
            /\ (attempts[c][2].raw.type = "response" =>
                    result[c] = Return(attempts[c][2].raw.data))

\* C3: a getObservations call for version 'latest' whose primary request
\* failed with HTTP 500, whatever the message, has issued exactly one more
\* request, to version '6' with the same dataset, edition and query string,
\* and returns that response's data when it succeeds.
ObservationsFallBackOn500 ==
    \A c \in Calls :
        (/\ Done(c, "getObservations")
         /\ call[c].version = "latest"
         /\ Got500(attempts[c][1])) =>
            /\ Len(attempts[c]) = 2
            /\ attempts[c][2].request =
                   Request(ObservationsUrl(call[c].datasetId, call[c].edition, "6",
                                           call[c].dimensionParams), None)
            /\ (attempts[c][2].raw.type = "response" =>
                    result[c] = Return(attempts[c][2].raw.data))

\* C4: getLatestVersion and getObservations issue no second request, and
\* hand the primary failure to the caller, when that failure is not a
\* ServerError or (getObservations) the version is not 'latest'.
NoFallbackUnlessServerErrorOnLatest ==
    \A c \in Calls :
        (/\ call[c].op \in {"getLatestVersion", "getObservations"}
         /\ attempts[c][1].stage = "consumed"
         /\ attempts[c][1].raw.type = "error"
         /\ \/ KindByStatus(attempts[c][1].raw) # "ServerError"
            \/ call[c].op = "getObservations" /\ call[c].version # "latest") =>
            /\ Len(attempts[c]) = 1
            /\ result[c] = Throw(attempts[c][1].settled)

\* C5: a getObservations call whose fallback request failed throws the
\* failure of its primary request.
ObservationsRethrowOriginal ==
    \A c \in Calls :
        (/\ Done(c, "getObservations")
         /\ Len(attempts[c]) = 2
         /\ attempts[c][2].raw.type = "error") =>
            result[c] = Throw(attempts[c][1].settled)

\* The fallback failed with a failure different from the primary one.
ObservationsRethrowOriginalWitness ==
    \E c \in Calls :
        /\ Done(c, "getObservations")
        /\ Len(attempts[c]) = 2
        /\ attempts[c][2].raw.type = "error"
        /\ attempts[c][2].settled # attempts[c][1].settled
        /\ KindOf(attempts[c][2].settled) = "NotFound"
        /\ result[c] = Throw(attempts[c][1].settled)

\* getLatestVersion and getDownloadUrl never reach their fallback request:
\* the failure their catch block sees is the interceptor's fresh Error, which
\* has no response attribute to read a status from.
LatestVersionNeverFallsBack ==
    \A c \in Calls :
        call[c].op \in {"getLatestVersion", "getDownloadUrl"} =>
            Len(attempts[c]) <= 1

\* C7: a call issues at most two requests; every request before the last
\* one has been settled as a failure and handled before the next was issued,
\* so at most one request of a call is outstanding and none follows a success.
AtMostTwoSequentialRequests ==
    \A c \in Calls :
        /\ Len(attempts[c]) <= 2
        /\ \A i \in 1..(Len(attempts[c]) - 1) :
               /\ attempts[c][i].stage = "consumed"
               /\ attempts[c][i].raw.type = "error"
        /\ Cardinality({i \in 1..Len(attempts[c]) :
                            attempts[c][i].stage # "consumed"}) <= 1
        /\ pc[c] = "done" =>
               \A i \in 1..Len(attempts[c]) : attempts[c][i].stage = "consumed"

\* A second request is outstanding after the first failed.
AtMostTwoSequentialRequestsWitness ==
    \E c \in Calls :
        /\ Len(attempts[c]) = 2
        /\ Failed(attempts[c][1])
        /\ attempts[c][2].stage = "sent"

\* C8: healthCheck returns true exactly when its one request succeeded,
\* false when it failed in any way, and never throws.
HealthCheckBoolean ==
    \A c \in Calls :
        Done(c, "healthCheck") =>
            /\ Len(attempts[c]) = 1
            /\ result[c].type = "return"
            /\ result[c].value \in BOOLEAN
            /\ result[c].value <=> Succeeded(attempts[c][1])

\* healthCheck answered false to a request that got no response.
HealthCheckBooleanWitness ==
    \E c \in Calls :
        /\ Done(c, "healthCheck")
        /\ Failed(attempts[c][1])
        /\ KindOf(attempts[c][1].settled) = "NetworkError"
        /\ result[c] = Return(FALSE)

\* C9: the rejection handler has run exactly once on every failed attempt
\* that has settled and not at all before; the catch block that decided on
\* the fallback held the normalized failure of the primary attempt, and a
\* failed fallback attempt was normalized before the call ended.
NormalizedExactlyOnce ==
    \A c \in Calls :
        /\ \A i \in 1..Len(attempts[c]) :
               LET a == attempts[c][i]
               IN  /\ ~Settled(a) => a.normalized = 0
                   /\ Succeeded(a) => a.normalized = 0
                   /\ Failed(a) => a.normalized = 1 /\ IsNormalizedFailure(a.settled)
        /\ Len(attempts[c]) = 2 =>
               /\ attempts[c][1].normalized = 1
               /\ caught[c] = attempts[c][1].settled
               /\ IsNormalizedFailure(caught[c])
        /\ (pc[c] = "done" /\ Len(attempts[c]) = 2
              /\ attempts[c][2].raw.type = "error") =>
               attempts[c][2].normalized = 1

\* A call ended after its fallback attempt failed.
NormalizedExactlyOnceWitness ==
    \E c \in Calls :
        /\ pc[c] = "done"
        /\ Len(attempts[c]) = 2
        /\ Failed(attempts[c][2])
        /\ attempts[c][2].normalized = 1
        /\ attempts[c][1].normalized = 1

NoFallbackOps ==
    {"listDatasets", "getDataset", "getDatasetDimensions",
     "getDimensionOptions", "searchDatasets"}

\* C10: a finished call of an operation other than healthCheck has returned
\* a value or thrown one failure, which is the normalized failure of one of
\* its own failed attempts; an operation without fallback throws the
\* normalized failure of its single request.
OneNormalizedFailureOrValue ==
    \A c \in Calls :
        (pc[c] = "done" /\ call[c].op # "healthCheck") =>
            /\ result[c].type \in {"return", "throw"}
            /\ result[c].type = "throw" =>
                   /\ IsNormalizedFailure(result[c].error)
                   /\ \E i \in 1..Len(attempts[c]) :
                          /\ Failed(attempts[c][i])
                          /\ result[c].error = attempts[c][i].settled
                          /\ KindOf(result[c].error) = KindByStatus(attempts[c][i].raw)
            /\ (result[c].type = "throw" /\ call[c].op \in NoFallbackOps) =>
                   /\ Len(attempts[c]) = 1
                   /\ result[c].error = attempts[c][1].settled
            /\ result[c].type = "return" =>
                   \/ call[c].op = "getPopularDatasets" /\ attempts[c] = <<>>
                   \/ /\ call[c].op # "getPopularDatasets"
                      /\ Succeeded(attempts[c][Len(attempts[c])])

\* searchDatasets threw the failure of a request that got no response.
OneNormalizedFailureOrValueWitness ==
    \E c \in Calls :
        /\ Done(c, "searchDatasets")
        /\ result[c].type = "throw"
        /\ attempts[c][1].raw.response = None
        /\ KindOf(result[c].error) = "NetworkError"

\* C11: the page searchDatasets returns holds no more items than the
\* requested limit, and items.length <= count <= total_count.
SearchPageWithinLimit ==
    \A c \in Calls :
        (Done(c, "searchDatasets") /\ result[c].type = "return") =>
            LET page == result[c].value
            IN  /\ Len(page.items) <= call[c].limit
                /\ Len(page.items) <= page.count
                /\ page.count <= page.total_count

\* The same bounds for the calls that ask for a limit of zero or more.
SearchPageWithinNaturalLimit ==
    \A c \in Calls :
        (Done(c, "searchDatasets") /\ result[c].type = "return"
           /\ call[c].limit >= 0) =>
            LET page == result[c].value
            IN  /\ Len(page.items) <= call[c].limit
                /\ Len(page.items) <= page.count
                /\ page.count <= page.total_count

\* text contains query as a substring, letter case aside.
ContainsIgnoringCase(text, query) ==
    \E i \in 0..(Len(text) - Len(query)) :
        \A j \in 1..Len(query) : LowerChar(text[i + j]) = LowerChar(query[j])

MatchesQuery(dataset, query) ==
    \/ ContainsIgnoringCase(dataset.title, query)
    \/ ContainsIgnoringCase(dataset.description, query)
    \/ ContainsIgnoringCase(dataset.id, query)

\* The first n elements of s (all of s when it has fewer, none when n <= 0).
FirstN(s, n) ==
    IF n <= 0 THEN <<>> ELSE SubSeq(s, 1, IF n > Len(s) THEN Len(s) ELSE n)

\* The datasets of the page that match the query, in page order.
MatchingInOrder(items, query) ==
    LET Keep(dataset) == MatchesQuery(dataset, query)
    IN  SelectSeq(items, Keep)

\* C12: searchDatasets makes one request, for the page of limit 100 and
\* offset 0, and returns the first `limit` datasets of that page, in page
\* order, whose title, description or id contains the query, letter case
\* aside.
SearchReturnsFirstMatches ==
    \A c \in Calls :
        Done(c, "searchDatasets") =>
            /\ Len(attempts[c]) = 1
            /\ attempts[c][1].request =
                   Request(<<"/datasets">>, Some([limit |-> 100, offset |-> 0]))
            /\ Succeeded(attempts[c][1]) =>
                   /\ result[c].type = "return"
                   /\ result[c].value.items =
                          FirstN(MatchingInOrder(attempts[c][1].raw.data.items,
                                                 call[c].query),
                                 call[c].limit)
                   /\ \A i \in 1..Len(result[c].value.items) :
                          MatchesQuery(result[c].value.items[i], call[c].query)

\* The same for the calls that ask for a limit of zero or more.
SearchReturnsFirstMatchesNaturalLimit ==
    \A c \in Calls :
        (Done(c, "searchDatasets") /\ call[c].limit >= 0) =>
            /\ Len(attempts[c]) = 1
            /\ attempts[c][1].request =
                   Request(<<"/datasets">>, Some([limit |-> 100, offset |-> 0]))
            /\ Succeeded(attempts[c][1]) =>
                   /\ result[c].type = "return"
                   /\ result[c].value.items =
                          FirstN(MatchingInOrder(attempts[c][1].raw.data.items,
                                                 call[c].query),
                                 call[c].limit)
                   /\ \A i \in 1..Len(result[c].value.items) :
                          MatchesQuery(result[c].value.items[i], call[c].query)

\* Two datasets of the page match and the limit of 1 cut the result to one.
SearchPageWithinNaturalLimitWitness ==
    \E c \in Calls :
        /\ Done(c, "searchDatasets")
        /\ result[c].type = "return"
        /\ call[c].limit = 1
        /\ Len(MatchingInOrder(attempts[c][1].raw.data.items, call[c].query)) > 1
        /\ Len(result[c].value.items) = 1

\* "TRADE" over the page Trade, CPI, GDP, Trade with limit 2: the first
\* Trade Balance and, by its description alone, GDP; CPI Index is left out.
SearchReturnsFirstMatchesWitness ==
    \E c \in Calls :
        /\ Done(c, "searchDatasets")
        /\ call[c].query = <<"T", "R", "A", "D", "E">>
        /\ call[c].limit = 2
        /\ Succeeded(attempts[c][1])
        /\ attempts[c][1].raw.data.items = <<DsTrade, DsCpih, DsGdp, DsTrade>>
        /\ result[c].value.items = <<DsTrade, DsGdp>>

\* C14: getDatasetDimensions returns the empty sequence when the dataset it
\* fetched has no dimensions field, and the dimension list when it has one.
DimensionsDefaultEmpty ==
    \A c \in Calls :
        (Done(c, "getDatasetDimensions") /\ Succeeded(attempts[c][1])) =>
            LET dataset == attempts[c][1].raw.data
            IN  /\ result[c].type = "return"
                /\ dataset.dimensions = None => result[c].value = <<>>
                /\ dataset.dimensions # None =>
                       result[c].value = dataset.dimensions[1]

\* The dataset fetched was Trade Balance, which has no dimensions field.
DimensionsDefaultEmptyWitness ==
    \E c \in Calls :
        /\ Done(c, "getDatasetDimensions")
        /\ Succeeded(attempts[c][1])
        /\ attempts[c][1].raw.data = DsTrade
        /\ result[c] = Return(<<>>)

\* The version document carries downloads.csv.href.
HasCsvHref(version) ==
    /\ version.downloads # None
    /\ version.downloads[1].csv # None
    /\ version.downloads[1].csv[1].href # None

\* C15: getDownloadUrl returns the empty string when the version document
\* it resolved lacks downloads, csv or href, and the link when it is there.
DownloadUrlDefaultEmpty ==
    \A c \in Calls :
        (Done(c, "getDownloadUrl")
           /\ Succeeded(attempts[c][Len(attempts[c])])) =>
            LET version == attempts[c][Len(attempts[c])].raw.data
            IN  /\ result[c].type = "return"
                /\ ~HasCsvHref(version) => result[c].value = ""
                /\ HasCsvHref(version) =>
                       result[c].value = version.downloads[1].csv[1].href[1]

\* The version document has downloads but no csv in it.
DownloadUrlDefaultEmptyWitness ==
    \E c \in Calls :
        /\ Done(c, "getDownloadUrl")
        /\ Succeeded(attempts[c][1])
        /\ attempts[c][1].raw.data = Version("63", Some([csv |-> None]))
        /\ result[c] = Return("")

\* C16: a getDownloadUrl call whose 'latest' request failed with HTTP 500
\* has asked for version '6' and, when that request succeeded, returns the
\* CSV link of its response (the empty string if there is none).
DownloadUrlFallsBackOn500 ==
    \A c \in Calls :
        (Done(c, "getDownloadUrl") /\ Got500(attempts[c][1])) =>
            /\ Len(attempts[c]) = 2
            /\ attempts[c][2].request =
                   Request(VersionUrl(call[c].datasetId, call[c].edition, "6"), None)
            /\ Succeeded(attempts[c][2]) =>
                   result[c] = Return(DownloadHref(attempts[c][2].raw.data))

CatchingOps == {"getLatestVersion", "getDownloadUrl", "getObservations", "healthCheck"}

\* C17: the failure a catch block of getLatestVersion, getObservations or
\* healthCheck receives is an Error made of its message alone, the message
\* reads "ONS API: <kind text> - ...", and it has no response to read a
\* status from: the status tests of the catch blocks can only succeed
\* through the words of the message.
CaughtFailureIsMessageOnly ==
    \A c \in Calls :
        call[c].op \in CatchingOps =>
            \A i \in 1..Len(attempts[c]) :
                Failed(attempts[c][i]) =>
                    LET error == attempts[c][i].settled
                    IN  /\ error = NewError(error.message)
                        /\ KindOf(error) # "Raw"
                        /\ ~HasStatus500(error)
                        /\ getLatestVersionStep("primary", error) = "throw"
                        /\ is500Error(error) <=>
                               /\ Includes(error.message, <<"Server error">>)
                               /\ Includes(error.message, <<"500">>)

\* The catch block of getObservations has handled an HTTP 500.
CaughtFailureIsMessageOnlyWitness ==
    \E c \in Calls :
        /\ call[c].op = "getObservations"
        /\ attempts[c][1].stage = "consumed"
        /\ Got500(attempts[c][1])
        /\ attempts[c][1].settled.response = None

-----------------------------------------------------------------------------
(* Termination *)

\* The transport resolves the request call c has in flight.
TransportResolves(c) ==
    \E outcome \in Outcomes(call[c].op) : Respond(c, outcome)

\* The code of call c after its await runs.
Continues(c) ==
    \/ listDatasetsAwait(c)
    \/ getDatasetAwait(c)
    \/ getLatestVersionAwait(c)
    \/ getObservationsAwait(c)
    \/ searchDatasetsAwait(c)
    \/ getDatasetDimensionsAwait(c)
    \/ getDimensionOptionsAwait(c)
    \/ healthCheckAwait(c)

\* Every request issued is resolved in the end (response, HTTP error,
\* network error or the 10 s timeout), and the event loop runs every
\* interceptor and continuation that is ready.
FairSpec ==
    /\ Spec
    /\ \A c \in Calls :
           /\ WF_vars(TransportResolves(c))
           /\ WF_vars(Intercept(c))
           /\ WF_vars(Continues(c))

\* C18: every call that has been made ends, with a value or a failure; a
\* call issues its fallback request at most once, and once it has issued it
\* the call only ends: it goes back to no earlier request and issues none
\* after it.
CallsEndWithOneFallback ==
    /\ \A c \in Calls : (pc[c] \in {"primary", "fallback"}) ~> (pc[c] = "done")
    /\ [](\A c \in Calls :
             /\ Len(attempts[c]) <= 2
             /\ pc[c] = "done" => result[c].type \in {"return", "throw"})
    /\ [][\A c \in Calls :
             pc[c] = "fallback" =>
                 /\ pc'[c] \in {"fallback", "done"}
                 /\ Len(attempts'[c]) = Len(attempts[c])]_vars

\* A call has ended after its fallback request failed.
CallsEndWithOneFallbackWitness ==
    \E c \in Calls :
        /\ pc[c] = "done"
        /\ Len(attempts[c]) = 2
        /\ Failed(attempts[c][2])
        /\ result[c].type = "throw"

-----------------------------------------------------------------------------
(* Concurrent calls *)

\* Two calls in progress on the one client at the same time.
ConcCalls == {"c1", "c2"}

\* What the transport answers in the concurrent runs: an HTTP 500 without
\* a message, no response at all, or one 2xx body.
ConcOutcomes(op) ==
    { HttpError(500, None), NoResponseError(<<"Network Error">>) }
      \cup { Success(body) :
                 body \in Bodies(op) \cap
                     { DatasetList(<<DsCpih, DsTrade>>, 2), DsCpih,
                       Version("6", Some([csv |-> Some([href |-> None])])),
                       [observations |-> <<>>, total_observations |-> 0],
                       [items |-> <<>>] } }

InitConc ==
    /\ client = NewClient
    /\ pc = [c \in ConcCalls |-> "idle"]
    /\ call = [c \in ConcCalls |-> NoCall]
    /\ attempts = [c \in ConcCalls |-> <<>>]
    /\ caught = [c \in ConcCalls |-> NoError]
    /\ result = [c \in ConcCalls |-> NoResult]

NextConc ==
    \E c \in ConcCalls :
        \/ listDatasets(c, None, None)
        \/ listDatasetsAwait(c)
        \/ getDataset(c, "cpih01")
        \/ getDatasetAwait(c)
        \/ getLatestVersion(c, "cpih01", None)
        \/ getDownloadUrl(c, "cpih01", None)
        \/ getLatestVersionAwait(c)
        \/ \E datasetId \in DatasetIds, version \in {None, Some("5")} :
               getObservations(c, datasetId, None, version, <<>>)
        \/ getObservationsAwait(c)
        \/ searchDatasets(c, trade, Some(1))
        \/ searchDatasetsAwait(c)
        \/ getPopularDatasets(c)
        \/ getDatasetDimensions(c, "cpih01")
        \/ getDatasetDimensionsAwait(c)
        \/ getDimensionOptions(c, "cpih01", "geography")
        \/ getDimensionOptionsAwait(c)
        \/ healthCheck(c)
        \/ healthCheckAwait(c)
        \/ \E outcome \in ConcOutcomes(call[c].op) : Respond(c, outcome)
        \/ Intercept(c)

SpecConc == InitConc /\ [][NextConc]_vars

\* Everything the model keeps about call c.
CallState(c) == <<pc[c], call[c], attempts[c], caught[c], result[c]>>

\* What the transport answered to the attempts of call c, in order.
Answers(c) == [i \in 1..Len(attempts[c]) |-> attempts[c][i].raw]

\* The requests call c issued, in order.
Requests(c) == [i \in 1..Len(attempts[c]) |-> attempts[c][i].request]

\* C13: with calls interleaved in any way, the transport configuration
\* stays as constructed; a step of one call leaves everything about the
\* other calls as it was; and two calls with the same arguments issue the
\* same first request, issue the same further requests once their earlier
\* requests got the same answers, and end with the same outcome when all
\* their requests got the same answers.
CallsAreIndependent ==
    /\ [](client = NewClient)
    /\ [][\E c \in ConcCalls :
              \A d \in ConcCalls \ {c} : CallState(d)' = CallState(d)]_vars
    /\ [](\A c, d \in ConcCalls :
             (call[c] = call[d] /\ attempts[c] # <<>> /\ attempts[d] # <<>>) =>
                 /\ Requests(c)[1] = Requests(d)[1]
                 /\ (/\ attempts[c][1].stage = "consumed"
                     /\ attempts[d][1].stage = "consumed"
                     /\ Answers(c)[1] = Answers(d)[1]) =>
                        Requests(c) = Requests(d)
                 /\ (/\ pc[c] = "done" /\ pc[d] = "done"
                     /\ Answers(c) = Answers(d)) =>
                        result[c] = result[d])

\* One call has ended with the failure of its fallback request behind it
\* while another call with the same arguments, whose primary request got
\* the same HTTP 500, has its own fallback request in flight.
CallsAreIndependentWitness ==
    \E c, d \in ConcCalls :
        /\ c # d
        /\ call[c] = call[d]
        /\ pc[c] = "done"
        /\ Len(attempts[c]) = 2
        /\ Failed(attempts[c][2])
        /\ pc[d] = "fallback"
        /\ attempts[d][2].stage = "sent"
        /\ client = NewClient

====
